---- MODULE Spec2Model ----
(***************************************************************************)
(* Model of github.com/kafkiansky/golist (list.go).                        *)
(*                                                                         *)
(* A List[V] is a struct {mutex *sync.RWMutex; values []V} that every      *)
(* method receives BY VALUE.  A Go slice is a header (array, offset, len,  *)
(* cap) over a backing array on the heap, so the model keeps the heap of   *)
(* backing arrays and the slice headers apart: copying a List copies the   *)
(* header and shares the array and the mutex.                              *)
(***************************************************************************)
EXTENDS Integers, Sequences, FiniteSets, TLC

\* ------------------------------------------------------------------ bounds
MaxLen == 3        \* longest list an operation may build
MaxOps == 2        \* calls made by the sequential caller
WordBits == 4      \* width of int and uint, scaled down from 64 (or 32)
NThreads == 2      \* goroutines that share one list and its mutex
MaxCalls == 2      \* guarded calls the goroutines make in all
MaxSteps == 6      \* loop iterations followed before a call is given up

Elems == {1, 2}    \* element values (V = int); 0 is V's zero value
Zero == 0
Slots == {"l", "m"} \* the List variables the sequential caller holds

VARIABLES
  heap,      \* backing arrays: a sequence of sequences of elements
  handles,   \* the caller's List variables: slot -> handle
  last,      \* the last call: its receiver, arguments, outcome and results
  nops,      \* calls made so far
  rw,        \* the sync.RWMutex the copies of one List share
  th,        \* the goroutines: goroutine -> its call in progress and its List
  lp         \* a looping call followed one iteration at a time

vars == <<heap, handles, last, nops, rw, th, lp>>
seqVars == <<handles, last>>
concVars == <<rw, th>>
NoLoop == [op |-> "none"]

\* ------------------------------------------------------------------ slices
Max(a, b) == IF a >= b THEN a ELSE b

Zeros(n) == [k \in 1..n |-> Zero]

Hdr(a, o, l, c) == [arr |-> a, off |-> o, len |-> l, cap |-> c]

\* l.Values(): the elements a header shows of the heap.
Read(hp, s) == [k \in 1..s.len |-> hp[s.arr][s.off + k]]

\* make([]V, n, c) followed by filling the first Len(content) elements:
\* a fresh backing array of capacity c.
AllocWith(hp, content, c) ==
  [heap |-> Append(hp, content \o Zeros(c - Len(content))),
   hdr  |-> Hdr(Len(hp) + 1, 0, Len(content), c)]

\* The capacity append gives a slice it has to reallocate to hold n
\* elements: the gc runtime doubles small slices.
GrowCap(s, n) == Max(n, 2 * s.cap)

\* append(s, vs...) with the capacity c used if it has to reallocate.
\* Within capacity it writes into the backing array of s, past s.len.
GoAppendShared(hp, s, vs) ==
  LET n == s.len + Len(vs) IN
  IF Len(vs) = 0 THEN [heap |-> hp, hdr |-> s]
  ELSE [heap |-> [hp EXCEPT ![s.arr] =
                    [k \in 1..Len(@) |->
                       IF k > s.off + s.len /\ k <= s.off + n
                       THEN vs[k - s.off - s.len] ELSE @[k]]],
        hdr  |-> [s EXCEPT !.len = n]]

GoAppend(hp, s, vs, c) ==
  LET n == s.len + Len(vs) IN
  IF n <= s.cap THEN GoAppendShared(hp, s, vs)
  ELSE AllocWith(hp, Read(hp, s) \o vs, c)

\* s[lo:hi] (two-index slice): the capacity runs to the end of s's.
SubSlice(s, lo, hi) == Hdr(s.arr, s.off + lo, hi - lo, s.cap - lo)

\* ------------------------------------------------------------------ handles
\* A handle is a List value: its slice header, plus bookkeeping that is not
\* in the program: which container it stands for (cid), the call that
\* returned it (from) and the header of that call's receiver (par).
Handle(s, cid, from, par) == [s |-> s, cid |-> cid, from |-> from, par |-> par]

NoHdr == Hdr(0, 0, 0, 0)

SeqsUpTo(n) == UNION {[1..k -> Elems] : k \in 0..n}

NoCall ==
  [op |-> "none", recv |-> Handle(NoHdr, <<0, 0>>, "none", NoHdr),
   rvals |-> <<>>, args |-> <<>>, avals |-> <<>>,
   v |-> 0, n |-> 0, slots |-> <<>>, pre |-> <<>>,
   ret |-> <<>>, err |-> FALSE, outcome |-> "ok"]

\* The record of a call on handles[h] with arguments (slots) as, which
\* returned the handles rs: the receiver and the arguments as they were
\* passed (by value), and what they and the caller's variables showed
\* before the call.
Call(op, h, as, v, n, rs, err, outcome) ==
  [op |-> op, recv |-> handles[h], rvals |-> Read(heap, handles[h].s),
   args |-> [k \in 1..Len(as) |-> handles[as[k]].s],
   avals |-> [k \in 1..Len(as) |-> Read(heap, handles[as[k]].s)],
   v |-> v, n |-> n,
   slots |-> handles,
   pre |-> [d \in Slots |-> Read(heap, handles[d].s)],
   ret |-> rs, err |-> err, outcome |-> outcome]

\* Results of a call that returns fresh Lists: each is a new container.
Fresh(op, h, hdrs) ==
  [k \in 1..Len(hdrs) |-> Handle(hdrs[k], <<nops + 1, k>>, op, handles[h].s)]

\* Result of Add/Delete: "return l", the receiver.
Same(op, h, hdr) == <<Handle(hdr, handles[h].cid, op, handles[h].s)>>

\* The caller keeps the k-th returned List in its variable m
\* (m = x.Op(...)), and with both set the k-th in l and the next one in m
\* (l, m = cs[k], cs[k+1]); k = 0 keeps nothing.
Keep(rs, k, both) ==
  IF k = 0 \/ k > Len(rs) THEN handles
  ELSE IF both /\ k + 1 <= Len(rs) THEN [l |-> rs[k], m |-> rs[k + 1]]
  ELSE [handles EXCEPT !.m = rs[k]]

\* From(values) / L(values) / Var(values...): wraps the slice as it is.
From(values) == AllocWith(<<>>, values, Len(values))

Init ==
  \E values \in SeqsUpTo(MaxLen) :
    LET f == From(values) IN
    /\ heap = f.heap
    /\ handles = [d \in Slots |-> Handle(f.hdr, <<0, 1>>, "From", NoHdr)]
    /\ last = NoCall
    /\ nops = 0
    /\ rw = [w |-> 0, readers |-> {}, waiting |-> {}]
    /\ th = <<>>
    /\ lp = NoLoop

\* The calls whose result is not like a list From builds: it shares the
\* receiver's array (Add, Delete, Chunk) or has spare capacity (Filter).
Producers == {"none", "Add", "Delete", "Filter", "Chunk"}

\* The caller makes another call: the last one returned (or its panic was
\* recovered) and left it a list to keep. The result of any other call is
\* dropped, and the caller is not followed past it: it holds what it held.
Running ==
  /\ nops < MaxOps
  /\ last.outcome # "hang"
  /\ last.op \in Producers

\* One call returning rs, leaving the heap hp.
Returns(op, h, as, v, n, hp, rs, err, outcome, k, both) ==
  /\ heap' = hp
  /\ last' = Call(op, h, as, v, n, rs, err, outcome)
  /\ handles' = Keep(rs, k, both)
  /\ nops' = nops + 1
  /\ UNCHANGED <<concVars, lp>>

\* ------------------------------------------------------------------ Add
\* func (l List[V]) Add(v V) List[V].  The sequential caller finds the
\* mutex free and Add, like Delete, leaves it free: see Body and Leave for
\* the calls of several goroutines.
\* A slip Add could make: the new element overwrites the last one.
AddValueOverLast(hp, s, v) ==
  GoAppend(hp, SubSlice(s, 0, Max(0, s.len - 1)), <<v>>, GrowCap(s, s.len + 1))

\* l.values = append(l.values, v)
AddValue(hp, s, v) == GoAppend(hp, s, <<v>>, GrowCap(s, s.len + 1))

Add(h, v) ==
  /\ Running
  /\ handles[h].s.len < MaxLen
  /\ LET r == AddValue(heap, handles[h].s, v)
     IN Returns("Add", h, <<>>, v, 0, r.heap, Same("Add", h, r.hdr),
                FALSE, "ok", 1, FALSE)

\* ------------------------------------------------------------------ Delete
\* uint and int of the platform, WordBits wide.
MaxUint == 2 ^ WordBits - 1
MaxInt == 2 ^ (WordBits - 1) - 1

\* int(index) for index of type uint: the same bits, read as two's complement.
ToInt(u) == IF u > MaxInt THEN u - 2 ^ WordBits ELSE u

\* The indexes a caller passes: the small ones and two above MaxInt.
Indexes == (0..(MaxLen + 1)) \cup {MaxInt + 1, MaxUint}

\* The guard of Delete: if l.Len() <= int(index) { return l }
DeleteSkips(s, index) == s.len <= ToInt(index)

\* l.values[:index] panics when index exceeds the capacity.
DeletePanics(s, index) == index > s.cap

\* append(l.values[:index], l.values[index+1:]...): the tail is moved one
\* place left inside the backing array of l; nothing is reallocated.
DeleteShift(hp, s, index) ==
  GoAppend(hp, SubSlice(s, 0, index),
           Read(hp, SubSlice(s, index + 1, s.len)), s.cap)

\* func (l List[V]) Delete(index uint) List[V]
Delete(h, index) ==
  LET s == handles[h].s IN
  /\ Running
  /\ IF DeleteSkips(s, index)
     THEN Returns("Delete", h, <<>>, 0, index, heap, Same("Delete", h, s),
                  FALSE, "ok", 1, FALSE)
     ELSE IF DeletePanics(s, index)
     THEN Returns("Delete", h, <<>>, 0, index, heap, <<>>,
                  FALSE, "panic", 0, FALSE)
     ELSE LET r == DeleteShift(heap, s, index) IN
          Returns("Delete", h, <<>>, 0, index, r.heap,
                  Same("Delete", h, r.hdr), FALSE, "ok", 1, FALSE)

\* ------------------------------------------------------------------ transforms
\* The functions a caller passes to Filter and Each.
Filters == {"odd", "none"}
Mappers == {"flip"}
ApplyFilter(f, v) == IF f = "odd" THEN v % 2 = 1 ELSE FALSE
ApplyMapper(f, v) == IF v = 1 THEN 2 ELSE 1

\* A call that returns newList(newlist), r being the heap it leaves and the
\* header of newlist.
Builds(op, h, as, v, n, r, k) ==
  Returns(op, h, as, v, n, r.heap, Fresh(op, h, <<r.hdr>>), FALSE, "ok",
          k, FALSE)

\* The elements Filter keeps.
FilterValues(vals, f) ==
  LET keep(v) == ApplyFilter(f, v) IN SelectSeq(vals, keep)

\* func (l List[V]) Filter(filter func(V) bool) List[V]
\* newlist := make([]V, 0, l.Len()), then the appends.
FilterList(hp, s, f) == AllocWith(hp, FilterValues(Read(hp, s), f), s.len)

Filter(h, f) ==
  /\ Running
  /\ Builds("Filter", h, <<>>, 0, 0, FilterList(heap, handles[h].s, f), 1)

\* The elements Each produces.
EachValues(vals, f) == [k \in 1..Len(vals) |-> ApplyMapper(f, vals[k])]

\* func (l List[V]) Each(mapper func(V) V) List[V]
\* newlist := make([]V, 0, l.Len()), then the appends.
EachList(hp, s, f) == AllocWith(hp, EachValues(Read(hp, s), f), s.len)

Each(h, f) ==
  /\ Running
  /\ Builds("Each", h, <<>>, 0, 0, EachList(heap, handles[h].s, f), 0)

\* a % b of Go for a >= 0, b # 0: the sign follows the dividend.
GoMod(a, b) == IF b > 0 THEN a % b ELSE a % (0 - b)

RECURSIVE NthValues(_, _, _)
\* The elements Nth keeps, from 0-based position i on.
NthValues(vals, nth, i) ==
  IF i >= Len(vals) THEN <<>>
  ELSE (IF GoMod(i, nth) = 0 THEN <<vals[i + 1]>> ELSE <<>>)
       \o NthValues(vals, nth, i + 1)

\* newlist := make([]V, 0, l.Len()), then the appends.
NthList(hp, s, nth) ==
  AllocWith(hp, IF s.len = 0 THEN <<>> ELSE NthValues(Read(hp, s), nth, 0),
            s.len)

Steps == (0 - 1)..(MaxLen + 1)

\* func (l List[V]) Nth(nth int) List[V]: i%nth panics for nth = 0.
Nth(h, nth) ==
  LET s == handles[h].s IN
  /\ Running
  /\ IF nth = 0 /\ s.len > 0
     THEN Returns("Nth", h, <<>>, 0, nth, heap, <<>>, FALSE, "panic",
                  0, FALSE)
     ELSE Builds("Nth", h, <<>>, 0, nth, NthList(heap, s, nth), 0)

RECURSIVE Concat(_)
Concat(ss) == IF ss = <<>> THEN <<>> ELSE Head(ss) \o Concat(Tail(ss))

\* The argument lists a caller passes to Join.
JoinArgs == {<<>>, <<"l">>, <<"m">>, <<"m", "l">>}

\* The elements Join produces.
JoinValues(hp, s, others) ==
  Read(hp, s) \o Concat([k \in 1..Len(others) |-> Read(hp, others[k])])

\* func (l List[V]) Join(lists ...List[V]) List[V]
\* newlist := make([]V, 0, outputLen), then the appends.
JoinList(hp, s, others) ==
  LET content == JoinValues(hp, s, others) IN
  AllocWith(hp, content, Len(content))

Join(h, as) ==
  /\ Running
  /\ Builds("Join", h, as, 0, 0,
            JoinList(heap, handles[h].s,
                     [k \in 1..Len(as) |-> handles[as[k]].s]), 0)

\* The swaps of Reverse, applied to the copy.
ReverseValues(vals) == [k \in 1..Len(vals) |-> vals[Len(vals) + 1 - k]]

\* func (l List[V]) Reverse() List[V]
\* A slip Reverse could make: the swaps run on l.values itself.
ReverseInPlace(hp, s) ==
  [heap |-> IF s.len = 0 THEN hp
            ELSE [hp EXCEPT ![s.arr] =
                    [k \in 1..Len(@) |->
                       IF k > s.off /\ k <= s.off + s.len
                       THEN @[2 * s.off + s.len + 1 - k] ELSE @[k]]],
   hdr  |-> s]

\* newlist := make([]V, l.Len()); copy(newlist, l.values); the swaps.
ReverseList(hp, s) == AllocWith(hp, ReverseValues(Read(hp, s)), s.len)

Reverse(h) ==
  /\ Running
  /\ Builds("Reverse", h, <<>>, 0, 0, ReverseList(heap, handles[h].s), 0)

\* func (l List[V]) Shuffle() List[V]: rand.Shuffle swaps the copy into
\* some permutation.
Shuffle(h) ==
  LET s == handles[h].s
      vals == Read(heap, s)
  IN
  /\ Running
  /\ \E p \in Permutations(1..s.len) :
       Builds("Shuffle", h, <<>>, 0, 0,
              AllocWith(heap, [k \in 1..s.len |-> vals[p[k]]], s.len), 0)

RECURSIVE UniqueValues(_, _)
\* The elements Unique keeps, given the set already visited.
UniqueValues(vals, visited) ==
  IF vals = <<>> THEN <<>>
  ELSE IF Head(vals) \in visited THEN UniqueValues(Tail(vals), visited)
  ELSE <<Head(vals)>> \o UniqueValues(Tail(vals), visited \cup {Head(vals)})

\* func (l List[V]) Unique() List[V]
\* unique := make([]V, 0, l.Len()), then the appends.
UniqueList(hp, s) == AllocWith(hp, UniqueValues(Read(hp, s), {}), s.len)

Unique(h) ==
  /\ Running
  /\ Builds("Unique", h, <<>>, 0, 0, UniqueList(heap, handles[h].s), 0)

\* ------------------------------------------------------------------ Chunk
RECURSIVE ChunkHdrsDropTail(_, _, _)
\* A slip Chunk could make: the loop runs while a whole chunk is left
\* (i+size <= sliceLen), which drops a shorter last chunk.
ChunkHdrsDropTail(s, size, i) ==
  IF i + size > s.len THEN <<>>
  ELSE <<SubSlice(s, i, i + size)>> \o ChunkHdrsDropTail(s, size, i + size)

RECURSIVE ChunkHdrs(_, _, _)
\* The loop of Chunk from position i on, for size >= 1:
\* for i := 0; i < sliceLen; i += size { end := min(i+size, sliceLen);
\*   chunks = append(chunks, newList(slice[i:end])) }
ChunkHdrs(s, size, i) ==
  IF i >= s.len THEN <<>>
  ELSE LET end == IF i + size > s.len THEN s.len ELSE i + size IN
       <<SubSlice(s, i, end)>> \o ChunkHdrs(s, size, i + size)

Sizes == (0 - 1)..(MaxLen + 1)

\* func (l List[V]) Chunk(size int) []List[V].  On a non-empty list size 0
\* never advances i, so the call does not return, and a negative size makes
\* slice[0:size] panic.
Chunk(h, size, k, both) ==
  LET s == handles[h].s IN
  /\ Running
  /\ IF s.len > 0 /\ size = 0
     THEN Returns("Chunk", h, <<>>, 0, size, heap, <<>>, FALSE, "hang",
                  0, FALSE)
     ELSE IF s.len > 0 /\ size < 0
     THEN Returns("Chunk", h, <<>>, 0, size, heap, <<>>, FALSE, "panic",
                  0, FALSE)
     ELSE LET hdrs == IF s.len = 0 THEN <<>> ELSE ChunkHdrs(s, size, 0) IN
          /\ k <= Max(1, Len(hdrs))
          /\ both => k = 1 /\ Len(hdrs) >= 2
          /\ Returns("Chunk", h, <<>>, 0, size, heap, Fresh("Chunk", h, hdrs),
                     FALSE, "ok", k, both)

\* ------------------------------------------------------------------ Zip
RECURSIVE ZipAlloc(_, _, _, _)
\* zipped[i] = Var(v, other.values[i]) for the positions from i on: each
\* pair is a fresh two-element slice.
ZipAlloc(hp, a, b, i) ==
  IF i > Len(a) THEN [heap |-> hp, hdrs |-> <<>>]
  ELSE LET r == AllocWith(hp, <<a[i], b[i]>>, 2)
           rest == ZipAlloc(r.heap, a, b, i + 1)
       IN [heap |-> rest.heap, hdrs |-> <<r.hdr>> \o rest.hdrs]

\* A slip Zip could make: only a longer receiver is refused.
ZipFailsWhenLonger(s, o) == s.len > o.len

\* if l.Len() != other.Len() { return []List[V]{}, fmt.Errorf(...) }
ZipFails(s, o) == s.len # o.len

\* func (l List[V]) Zip(other List[V]) ([]List[V], error)
Zip(h, a) ==
  LET s == handles[h].s
      o == handles[a].s
  IN
  /\ Running
  /\ IF ZipFails(s, o)
     THEN Returns("Zip", h, <<a>>, 0, 0, heap, <<>>, TRUE, "ok", 0, FALSE)
     ELSE LET r == ZipAlloc(heap, Read(heap, s), Read(heap, o), 1) IN
          Returns("Zip", h, <<a>>, 0, 0, r.heap, Fresh("Zip", h, r.hdrs),
                  FALSE, "ok", 0, FALSE)

Next ==
  \/ \E h \in Slots, v \in Elems : Add(h, v)
  \/ \E h \in Slots, index \in Indexes : Delete(h, index)
  \/ \E h \in Slots, f \in Filters : Filter(h, f)
  \/ \E h \in Slots, f \in Mappers : Each(h, f)
  \/ \E h \in Slots, nth \in Steps : Nth(h, nth)
  \/ \E h \in Slots, as \in JoinArgs : Join(h, as)
  \/ \E h \in Slots : Reverse(h)
  \/ \E h \in Slots : Shuffle(h)
  \/ \E h \in Slots : Unique(h)
  \/ \E h \in Slots, size \in Sizes, k \in 1..MaxLen, both \in BOOLEAN :
        Chunk(h, size, k, both)
  \/ \E h \in Slots, a \in Slots : Zip(h, a)

Spec == Init /\ [][Next]_vars

\* ================================================================== goroutines
\* Several goroutines, each holding a copy of one List (the same slice
\* header at first, the same *sync.RWMutex throughout), make the guarded
\* calls: Add, Delete, First, Last, Contains, Random.
Threads == 1..NThreads

GuardedOps == {"Add", "Delete", "First", "Last", "Contains", "Random"}

\* The calls that take l.mutex.Lock(); a slip would be Delete under RLock.
LocksForWritingAddOnly(op) == op = "Add"

\* l.mutex.Lock() in Add and Delete; the others take l.mutex.RLock().
LocksForWriting(op) == op \in {"Add", "Delete"}

\* A slip Delete could make: Unlock at the end of the body only, as in Add,
\* so that the early return and the panic leave with the mutex held.
UnlocksAtEndOnly(op, path) == ~(op = "Delete" /\ path # "return")

\* Whether the call releases the mutex when it leaves by the given path:
\* Add calls Unlock before its only return; the others defer the release,
\* which runs on every return and on a panic.
Unlocks(op, path) == TRUE

Idle(l) == [pc |-> "idle", op |-> "none", arg |-> 0, l |-> l, acq |-> 0,
            path |-> "return", res |-> 0]

InitConc ==
  \E values \in SeqsUpTo(1) :
    LET f == From(values) IN
    /\ heap = f.heap
    /\ th = [t \in Threads |-> Idle(f.hdr)]
    /\ rw = [w |-> 0, readers |-> {}, waiting |-> {}]
    /\ nops = 0
    /\ handles = <<>>
    /\ last = NoCall
    /\ lp = NoLoop

\* The arguments a goroutine passes to op.
ArgsOf(op) ==
  IF op = "Add" \/ op = "Contains" THEN {1}
  ELSE IF op = "Delete" THEN {0, MaxInt + 1}
  ELSE {0}

\* A goroutine calls op(arg) on its copy of the list.
Invoke(t, op, arg) ==
  /\ th[t].pc = "idle"
  /\ nops < MaxCalls
  /\ op = "Add" => th[t].l.len < MaxLen
  /\ th' = [th EXCEPT ![t] = [@ EXCEPT !.pc = "lock", !.op = op, !.arg = arg,
                                       !.acq = 0, !.path = "return",
                                       !.res = 0]]
  /\ nops' = nops + 1
  /\ UNCHANGED <<heap, rw, seqVars, lp>>

\* RWMutex.Lock, first half: take the writers' mutex rw.w and announce the
\* writer, which turns arriving readers away.
LockAnnounce(t) ==
  /\ th[t].pc = "lock"
  /\ LocksForWriting(th[t].op)
  /\ rw.w = 0
  /\ rw' = [rw EXCEPT !.w = t]
  /\ th' = [th EXCEPT ![t].pc = "lockwait"]
  /\ UNCHANGED <<heap, nops, seqVars, lp>>

\* RWMutex.Lock, second half: wait for the readers inside to leave.
LockEnter(t) ==
  /\ th[t].pc = "lockwait"
  /\ rw.readers = {}
  /\ th' = [th EXCEPT ![t].pc = "body", ![t].acq = @ + 1]
  /\ UNCHANGED <<heap, nops, rw, seqVars, lp>>

\* RWMutex.RLock: count the reader in; with a writer announced it sleeps
\* until that writer's Unlock lets it in.
RLock(t) ==
  /\ th[t].pc = "lock"
  /\ ~LocksForWriting(th[t].op)
  /\ IF rw.w = 0
     THEN /\ rw' = [rw EXCEPT !.readers = @ \cup {t}]
          /\ th' = [th EXCEPT ![t].pc = "body", ![t].acq = @ + 1]
     ELSE /\ rw' = [rw EXCEPT !.waiting = @ \cup {t}]
          /\ th' = [th EXCEPT ![t].pc = "rlockwait"]
  /\ UNCHANGED <<heap, nops, seqVars, lp>>

\* A reader that slept in RLock finds itself let in.
RLockWake(t) ==
  /\ th[t].pc = "rlockwait"
  /\ t \in rw.readers
  /\ th' = [th EXCEPT ![t].pc = "body", ![t].acq = @ + 1]
  /\ UNCHANGED <<heap, nops, rw, seqVars, lp>>

\* The body of the call, run with the mutex held.
Body(t) ==
  LET c == th[t]
      vals == Read(heap, c.l)
      done(path, l, res) ==
        th' = [th EXCEPT ![t] = [@ EXCEPT !.pc = "leave", !.path = path,
                                          !.l = l, !.res = res]]
  IN
  /\ c.pc = "body"
  /\ CASE c.op = "Add" ->
            LET r == AddValue(heap, c.l, c.arg) IN
            heap' = r.heap /\ done("return", r.hdr, 0)
       [] c.op = "Delete" ->
            IF DeleteSkips(c.l, c.arg)
            THEN heap' = heap /\ done("skip", c.l, 0)
            ELSE IF DeletePanics(c.l, c.arg)
            THEN heap' = heap /\ done("panic", c.l, 0)
            ELSE LET r == DeleteShift(heap, c.l, c.arg) IN
                 heap' = r.heap /\ done("return", r.hdr, 0)
       [] c.op = "First" ->
            heap' = heap
            /\ done("return", c.l, IF c.l.len > 0 THEN vals[1] ELSE Zero)
       [] c.op = "Last" ->
            heap' = heap
            /\ done("return", c.l, IF c.l.len > 0 THEN vals[c.l.len] ELSE Zero)
       [] c.op = "Contains" ->
            heap' = heap
            /\ done("return", c.l,
                    IF \E k \in 1..c.l.len : vals[k] = c.arg THEN 1 ELSE 0)
       [] c.op = "Random" ->
            heap' = heap
            /\ IF c.l.len = 0 THEN done("panic", c.l, 0)
               ELSE \E k \in 1..c.l.len : done("return", c.l, vals[k])
  /\ UNCHANGED <<nops, rw, seqVars, lp>>

\* RWMutex.Unlock lets the sleeping readers in and frees rw.w;
\* RWMutex.RUnlock counts the reader out.
Released(t) ==
  IF rw.w = t
  THEN [w |-> 0, readers |-> rw.readers \cup rw.waiting, waiting |-> {}]
  ELSE [rw EXCEPT !.readers = @ \ {t}]

\* The call leaves: its Unlock, or its deferred Unlock/RUnlock, runs and it
\* returns (or its panic goes on to the caller, which recovers).
Leave(t) ==
  /\ th[t].pc = "leave"
  /\ rw' = IF Unlocks(th[t].op, th[t].path) THEN Released(t) ELSE rw
  /\ th' = [th EXCEPT ![t] = Idle(@.l)]
  /\ UNCHANGED <<heap, nops, seqVars, lp>>

\* The steps of a call in progress.
Step(t) ==
  \/ LockAnnounce(t)
  \/ LockEnter(t)
  \/ RLock(t)
  \/ RLockWake(t)
  \/ Body(t)
  \/ Leave(t)

NextConc ==
  \/ \E t \in Threads, op \in GuardedOps : \E arg \in ArgsOf(op) :
       Invoke(t, op, arg)
  \/ \E t \in Threads : Step(t)

\* The Go scheduler runs every goroutine that can run.
SpecConc ==
  InitConc /\ [][NextConc]_vars /\ \A t \in Threads : WF_vars(Step(t))

\* ================================================================== loops
\* The looping calls, one iteration per step, on their integer arguments:
\* the receiver counts by its length only. int wraps at WordBits.
MinInt == 0 - 2 ^ (WordBits - 1)

\* x as an int: two's complement wrap-around of + and -.
WrapInt(x) == ((x - MinInt) % (2 ^ WordBits)) + MinInt

LoopOps == {"Chunk", "Nth", "Join", "Fill", "Sequence", "Between"}

\* The arguments a caller passes: a is the receiver's length (Chunk, Nth,
\* Join), count (Fill, Sequence) or min (Between); b is size, nth, the number
\* of lists joined, start or max; c is Between's chunk.
LoopArgs(op) ==
  CASE op = "Chunk" -> (0..MaxLen) \X Sizes \X {0}
    [] op = "Nth" -> (0..MaxLen) \X Steps \X {0}
    [] op = "Join" -> (0..MaxLen) \X (0..2) \X {0}
    [] op = "Fill" -> ((0 - 1)..MaxLen) \X {0} \X {0}
    [] op = "Sequence" -> ((0 - 1)..MaxLen) \X {0, 1, MaxInt} \X {0}
    [] op = "Between" ->
         {0, 1, MaxInt - 1} \X (((0 - 1)..MaxLen) \cup {MaxInt})
           \X ((0 - 1)..2)

\* The state of a call when its loop is reached: make([]V, 0, n) panics
\* for n < 0 (Fill: count, Sequence: count, Between: max).
Enter(op, a, b, c) ==
  [op |-> op, a |-> a, b |-> b, c |-> c,
   pc |-> IF \/ (op \in {"Fill", "Sequence"} /\ a < 0)
             \/ (op = "Between" /\ b < 0)
          THEN "panic" ELSE "loop",
   i |-> IF op = "Sequence" THEN b ELSE IF op = "Between" THEN a ELSE 0,
   iters |-> 0, out |-> 0]

InitLoop ==
  /\ \E op \in LoopOps : \E x \in LoopArgs(op) :
       lp = Enter(op, x[1], x[2], x[3])
  /\ heap = <<>>
  /\ handles = <<>>
  /\ last = NoCall
  /\ nops = 0
  /\ rw = [w |-> 0, readers |-> {}, waiting |-> {}]
  /\ th = <<>>

\* One evaluation of a loop's condition and, if it holds, of its body:
\* the loop ends (done), panics, or goes on with i and out updated.
Iterate(op, cond, panics, i, out) ==
  /\ lp.op = op
  /\ lp.pc = "loop"
  /\ lp.iters < MaxSteps
  /\ lp' = IF ~cond THEN [lp EXCEPT !.pc = "done"]
           ELSE IF panics THEN [lp EXCEPT !.pc = "panic", !.iters = @ + 1]
           ELSE [lp EXCEPT !.i = i, !.out = out, !.iters = @ + 1]
  /\ UNCHANGED <<heap, nops, seqVars, concVars>>

\* for i := 0; i < sliceLen; i += size { end := i + size;
\*   if end > sliceLen { end = sliceLen }; ... slice[i:end] ... }
ChunkStep ==
  LET end0 == WrapInt(lp.i + lp.b)
      end == IF end0 > lp.a THEN lp.a ELSE end0
  IN Iterate("Chunk", lp.i < lp.a, lp.i < 0 \/ end < lp.i,
             WrapInt(lp.i + lp.b), lp.out + 1)

\* for i, v := range l.values { if i%nth == 0 { append } }
NthStep ==
  Iterate("Nth", lp.i < lp.a, lp.b = 0, lp.i + 1,
          IF lp.b # 0 /\ GoMod(lp.i, lp.b) = 0 THEN lp.out + 1 ELSE lp.out)

\* The two loops of Join over lists: the lengths are summed, then the
\* elements appended.
JoinStep ==
  Iterate("Join", lp.i < 2 * lp.b, FALSE, lp.i + 1,
          IF lp.i >= lp.b THEN lp.out + lp.a ELSE lp.out)

\* for i := 0; i < count; i++ { append }
FillStep ==
  Iterate("Fill", lp.i < lp.a, FALSE, WrapInt(lp.i + 1), lp.out + 1)

\* end := count + start - 1; for i := start; i <= end; i++ { append }
SequenceStep ==
  Iterate("Sequence", lp.i <= WrapInt(WrapInt(lp.a + lp.b) - 1), FALSE,
          WrapInt(lp.i + 1), lp.out + 1)

\* for i := min; i <= max; i++ { if i%chunk == 0 { append } }
BetweenStep ==
  Iterate("Between", lp.i <= lp.b, lp.c = 0, WrapInt(lp.i + 1),
          IF lp.c # 0 /\ GoMod(IF lp.i < 0 THEN 0 - lp.i ELSE lp.i, lp.c) = 0
          THEN lp.out + 1 ELSE lp.out)

NextLoop ==
  \/ ChunkStep
  \/ NthStep
  \/ JoinStep
  \/ FillStep
  \/ SequenceStep
  \/ BetweenStep

SpecLoop == InitLoop /\ [][NextLoop]_vars

\* ================================================================== claims
Transforms ==
  {"Filter", "Each", "Chunk", "Join", "Nth", "Reverse", "Shuffle", "Unique",
   "Zip"}

\* The values of the lists the last call returned.
RetVals == [k \in 1..Len(last.ret) |-> Read(heap, last.ret[k].s)]

\* vals without its element at 0-based position i.
RemoveAt(vals, i) ==
  [k \in 1..(Len(vals) - 1) |-> IF k <= i THEN vals[k] ELSE vals[k + 1]]

CeilDiv(a, b) == (a + b - 1) \div b

\* C1: after l.Add(v), or l.Delete(i) with i < Length, the contents read
\* through the handle l the call was made on (its values and length) equal
\* the contents of the list the call returned.
C1_ReceiverShowsResult ==
  (last.op = "Add" \/ (last.op = "Delete" /\ last.n < last.recv.s.len))
    => /\ Len(last.ret) = 1
       /\ Read(heap, last.recv.s) = RetVals[1]

\* C2: the list Add(v) returns holds the receiver's elements in their order
\* followed by v, one element more than the receiver had, after any chain
\* of Add and Delete calls.
C2_AddAppends ==
  last.op = "Add"
    => /\ last.outcome = "ok"
       /\ Len(last.ret) = 1
       /\ last.ret[1].s.len = last.recv.s.len + 1
       /\ RetVals[1] = Append(last.rvals, last.v)

\* C2 witness: an Add on the list an earlier Add or Delete returned, which
\* had elements and room for one more.
C2_Witness ==
  /\ last.op = "Add"
  /\ last.recv.from \in {"Add", "Delete"}
  /\ last.recv.s.len >= 1
  /\ last.recv.s.cap > last.recv.s.len
  /\ last.ret[1].s.len = last.recv.s.len + 1

\* C3: Delete(i) with i < Length returns the receiver's elements without the
\* one at position i, in their order; with i >= Length it is a silent no-op:
\* it reports no failure and returns a list with the receiver's values.
C3_DeleteRemovesOrSkips ==
  last.op = "Delete"
    => /\ last.outcome = "ok"
       /\ Len(last.ret) = 1
       /\ IF last.n < last.recv.s.len
          THEN /\ last.ret[1].s.len = last.recv.s.len - 1
               /\ RetVals[1] = RemoveAt(last.rvals, last.n)
          ELSE RetVals[1] = last.rvals

\* C4: a transform leaves its receiver and its argument lists as they were:
\* what the receiver, the arguments and every variable of the caller showed
\* before the call is what they show after it.
C4_TransformsKeepReceiver ==
  last.op \in Transforms
    => /\ Read(heap, last.recv.s) = last.rvals
       /\ \A k \in 1..Len(last.args) : Read(heap, last.args[k]) = last.avals[k]
       /\ \A d \in Slots : Read(heap, last.slots[d].s) = last.pre[d]

\* C4 witness: Reverse returned a list that differs from its receiver, a
\* view into an array it shares.
C4_Witness ==
  /\ last.op = "Reverse"
  /\ last.recv.from = "Chunk"
  /\ Len(last.ret) = 1
  /\ RetVals[1] # last.rvals

\* C5: Chunk(n) with n >= 1 on a list of length L returns ceil(L/n) lists,
\* each of length n except the last, whose length is between 1 and n, and
\* the chunks in order concatenate to the receiver's elements.
C5_ChunkSplits ==
  (last.op = "Chunk" /\ last.n >= 1)
    => /\ last.outcome = "ok"
       /\ Len(last.ret) = CeilDiv(last.recv.s.len, last.n)
       /\ \A k \in 1..Len(last.ret) :
            IF k < Len(last.ret) THEN last.ret[k].s.len = last.n
            ELSE last.ret[k].s.len >= 1 /\ last.ret[k].s.len <= last.n
       /\ Concat(RetVals) = last.rvals

\* C5 witness: a Chunk whose last chunk is shorter than the others.
C5_Witness ==
  /\ last.op = "Chunk"
  /\ last.n >= 2
  /\ Len(last.ret) >= 2
  /\ last.ret[Len(last.ret)].s.len < last.n

\* C6: Zip of lists of different lengths reports the failure and returns no
\* pairs; Zip of lists of one length reports none and returns, in order,
\* the two-element lists {A[i], B[i]}.
C6_ZipPairsOrFails ==
  last.op = "Zip"
    => IF last.recv.s.len # last.args[1].len
       THEN last.err /\ last.ret = <<>>
       ELSE /\ ~last.err
            /\ Len(last.ret) = last.recv.s.len
            /\ \A i \in 1..Len(last.ret) :
                 RetVals[i] = <<last.rvals[i], last.avals[1][i]>>

\* C6 witness: a Zip of a shorter list with a longer one.
C6_Witness ==
  /\ last.op = "Zip"
  /\ last.recv.s.len >= 1
  /\ last.recv.s.len < last.args[1].len
  /\ last.err

\* C10: an Add or Delete on one handle changes the values of no other
\* container: (a) of no list that is not the receiver's container (the
\* receiver a transform result came from, a sibling chunk), and (b) of no
\* list an earlier Add on the same receiver returned, when the call is Add.
C10_ResultsIndependent ==
  /\ last.op \in {"Add", "Delete"}
       => \A d \in Slots :
            last.slots[d].cid # last.recv.cid
              => Read(heap, last.slots[d].s) = last.pre[d]
  /\ last.op = "Add"
       => \A d \in Slots :
            (last.slots[d].from = "Add" /\ last.slots[d].par = last.recv.s)
              => Read(heap, last.slots[d].s) = last.pre[d]

\* A goroutine is inside its guarded section from taking the mutex to
\* releasing it.
Inside(t) == th[t].pc \in {"body", "leave"}

\* C7: while an Add or a Delete is between taking and releasing the mutex,
\* no other guarded call is inside its guarded section; only First, Last,
\* Contains and Random are inside theirs together.
C7_WriterExcludesAll ==
  \A t \in Threads :
    (Inside(t) /\ th[t].op \in {"Add", "Delete"})
      => \A u \in Threads \ {t} : ~Inside(u)

\* C7 witness: a writer is inside while another guarded call waits for the
\* mutex.
C7_Witness ==
  \E t, u \in Threads :
    /\ Inside(t) /\ th[t].op \in {"Add", "Delete"}
    /\ th[u].pc \in {"lock", "rlockwait"}

\* A goroutine that is in no call holds the mutex in no way.
HoldsNothing(t) == rw.w # t /\ t \notin rw.readers /\ t \notin rw.waiting

\* C8: every guarded call takes and releases the mutex within its body on
\* every return path: a goroutine in no call holds nothing (so the mutex is
\* free when no call is in progress), no call takes the mutex twice, and
\* every call that was made completes.
C8_GuardReleasedAndCallsComplete ==
  /\ [](\A t \in Threads : th[t].pc = "idle" => HoldsNothing(t))
  /\ []((\A t \in Threads : th[t].pc = "idle")
          => rw = [w |-> 0, readers |-> {}, waiting |-> {}])
  /\ [](\A t \in Threads : th[t].acq <= 1)
  /\ \A t \in Threads : (th[t].pc # "idle") ~> (th[t].pc = "idle")

\* C8 witness: a Delete is leaving by its early return, the mutex still
\* held, while another call waits for it.
C8_Witness ==
  \E t, u \in Threads :
    /\ th[t].pc = "leave" /\ th[t].op = "Delete" /\ th[t].path = "skip"
    /\ rw.w = t
    /\ th[u].pc \in {"lock", "rlockwait"}

\* The iterations the inputs of a looping call allow it: the lengths of its
\* input lists and its count arguments.
InputBound ==
  CASE lp.op \in {"Chunk", "Nth"} -> lp.a
    [] lp.op = "Join" -> 2 * lp.b
    [] lp.op \in {"Fill", "Sequence"} -> Max(lp.a, 0)
    [] lp.op = "Between" -> Max(lp.b - lp.a + 1, 0)

\* C9: every looping call (Chunk, Nth, Join, Fill, Sequence, Between), for
\* every integer argument, runs a number of iterations bounded by the
\* lengths of its inputs and its count arguments, each making progress.
C9_LoopsBoundedByInput == lp.op # "none" => lp.iters <= InputBound
====
